---- MODULE Spec2Model ----
(***************************************************************************)
(* Model of src/src/formatter/chinese.rs: conversion of a number to        *)
(* Chinese numeral words (DBNum1 / DBNum2) and Chinese digit strings       *)
(* (DBNum3).                                                               *)
(*                                                                         *)
(* A Rust string is a sequence of glyph tokens (one token per char).       *)
(* The module text is ASCII, so every glyph has an ASCII token:            *)
(*   s0..s9            U+3007 U+4E00 U+4E8C U+4E09 U+56DB U+4E94 U+516D    *)
(*                     U+4E03 U+516B U+4E5D    (TRAD_SIMP_DIGITS)          *)
(*   s_shi s_bai s_qian  U+5341 U+767E U+5343  (TRAD_SIMP_UNITS)           *)
(*   f0..f9            U+96F6 U+58F9 U+8D30 U+53C1 U+8086 U+4F0D U+9646    *)
(*                     U+67D2 U+634C U+7396    (TRAD_FORMAL_DIGITS)        *)
(*   f_shi f_bai f_qian  U+62FE U+4F70 U+4EDF  (TRAD_FORMAL_UNITS)         *)
(*   wan yi zhao jing  U+4E07 U+4EBF U+5146 U+4EAC  (LARGE_UNITS)          *)
(*   fu                U+8D1F, the negative marker                         *)
(*   fw_point          U+FF0E, the full-width point                        *)
(*   "0".."9" "-" "."  the ASCII characters of f64::to_string              *)
(*                                                                         *)
(* A u64 is kept as its five base-10000 digits, least significant first    *)
(* (u64::MAX < 10000^5), because 10^19 does not fit a model integer.       *)
(***************************************************************************)
EXTENDS Integers, Sequences, FiniteSets, TLC

VARIABLES fn, num, is_formal, use_leading_one_for_ten, pc, result, ci, cf, used

vars == <<fn, num, is_formal, use_leading_one_for_ten, pc, result, ci, cf, used>>

---------------------------------------------------------------------------
(* Glyph tables *)

TRAD_SIMP_DIGITS ==
  << <<"s0">>, <<"s1">>, <<"s2">>, <<"s3">>, <<"s4">>,
     <<"s5">>, <<"s6">>, <<"s7">>, <<"s8">>, <<"s9">> >>

TRAD_SIMP_UNITS == << <<>>, <<"s_shi">>, <<"s_bai">>, <<"s_qian">> >>

TRAD_FORMAL_DIGITS ==
  << <<"f0">>, <<"f1">>, <<"f2">>, <<"f3">>, <<"f4">>,
     <<"f5">>, <<"f6">>, <<"f7">>, <<"f8">>, <<"f9">> >>

TRAD_FORMAL_UNITS == << <<>>, <<"f_shi">>, <<"f_bai">>, <<"f_qian">> >>

LARGE_UNITS == << <<>>, <<"wan">>, <<"yi">>, <<"zhao">>, <<"jing">> >>

\* the (digits, units) pair selected by is_formal
Profile(formal) ==
  IF formal THEN [digits |-> TRAD_FORMAL_DIGITS, units |-> TRAD_FORMAL_UNITS]
            ELSE [digits |-> TRAD_SIMP_DIGITS, units |-> TRAD_SIMP_UNITS]

---------------------------------------------------------------------------
(* Rust primitives *)

\* table[i] with a 0-based index; an index out of range panics, and the
\* actions turn a logged out-of-range index into pc = "panic"
At(table, i) == IF i \in 0..(Len(table) - 1) THEN table[i + 1] ELSE <<"PANIC">>

\* str::starts_with
StartsWith(s, p) == Len(p) <= Len(s) /\ SubSeq(s, 1, Len(p)) = p

\* str::ends_with
EndsWith(s, p) == Len(p) <= Len(s) /\ SubSeq(s, Len(s) - Len(p) + 1, Len(s)) = p

\* String::pop: drops the last char
Pop(s) == IF s = <<>> THEN s ELSE SubSeq(s, 1, Len(s) - 1)

\* 10u64.pow(i)
RECURSIVE Pow10(_)
Pow10(i) == IF i = 0 THEN 1 ELSE 10 * Pow10(i - 1)

\* the length of a table, by the name it is logged under
TableLen(name) ==
  CASE name = "digits" -> 10
    [] name = "units" -> 4
    [] name = "LARGE_UNITS" -> 5

\* a logged table access <<name, index>> that Rust's bounds check rejects
OutOfBounds(a) == a[2] \notin 0..(TableLen(a[1]) - 1)

Panics(log) == \E a \in log : OutOfBounds(a)

---------------------------------------------------------------------------
(* convert_four_digits *)

\* base of the chunks convert_integer cuts n into
ChunkBase == 10000

\* locals at entry to the position loop
FourDigitsInit(n) == [n |-> n, result |-> <<>>, was_zero |-> TRUE, used |-> {}]

\* DigitBeforeUnit without the special case for the ten unit
DigitBeforeUnitNoContraction(st, d, i, digits, flag) ==
  [str |-> At(digits, d), used |-> {<<"digits", d>>}]

\* DigitBeforeUnit with the lowercase 'one' glyph written out instead of
\* digits[1]
DigitBeforeUnitLowercaseOne(st, d, i, digits, flag) ==
  IF d = 1 /\ i = 1 /\ st.n >= 10 /\ st.n < 20
    THEN [str |-> IF flag THEN <<"s1">> ELSE <<>>,
          used |-> {}]
    ELSE [str |-> At(digits, d), used |-> {<<"digits", d>>}]

\* the digit glyph pushed in front of a place unit for a non-zero digit d
DigitBeforeUnit(st, d, i, digits, flag) ==
  IF d = 1 /\ i = 1 /\ st.n >= 10 /\ st.n < 20
    THEN [str |-> IF flag THEN At(digits, 1) ELSE <<>>,
          used |-> IF flag THEN {<<"digits", 1>>} ELSE {}]
    ELSE [str |-> At(digits, d), used |-> {<<"digits", d>>}]

\* whether a zero position appends a bridging zero glyph
AppendsZero(st, digits) ==
  ~st.was_zero /\ st.result # <<>> /\ ~EndsWith(st.result, At(digits, 0))

\* one iteration of `for i in (0..4).rev()`
FourDigitsStep(st, i, digits, units, flag) ==
  LET base == Pow10(i)
      d == st.n \div base
  IN IF d > 0
       THEN LET g == DigitBeforeUnit(st, d, i, digits, flag)
            IN [n |-> st.n % base,
                result |-> st.result \o g.str \o At(units, i),
                was_zero |-> FALSE,
                used |-> st.used \cup g.used \cup {<<"units", i>>}]
       ELSE [n |-> st.n % base,
             result |-> IF AppendsZero(st, digits)
                          THEN st.result \o At(digits, 0) ELSE st.result,
             was_zero |-> TRUE,
             used |-> IF ~st.was_zero /\ st.result # <<>>
                        THEN st.used \cup {<<"digits", 0>>} ELSE st.used]

\* StripTrailing with the trailing-zero loop left out
StripTrailingNever(s, zero) == s

\* `while result.ends_with(digits[0]) { result.pop(); }`
RECURSIVE StripTrailing(_, _)
StripTrailing(s, zero) ==
  IF EndsWith(s, zero) /\ s # <<>> THEN StripTrailing(Pop(s), zero) ELSE s

\* the locals after the four iterations i = 3, 2, 1, 0
FourDigitsLoop(n, digits, units, flag) ==
  LET s3 == FourDigitsStep(FourDigitsInit(n), 3, digits, units, flag)
      s2 == FourDigitsStep(s3, 2, digits, units, flag)
      s1 == FourDigitsStep(s2, 1, digits, units, flag)
  IN FourDigitsStep(s1, 0, digits, units, flag)

\* convert_four_digits as a function: [str, used]
ConvertFourDigits(n, digits, units, flag) ==
  IF n = 0
    THEN [str |-> <<>>, used |-> {}]
    ELSE LET st == FourDigitsLoop(n, digits, units, flag)
         IN [str |-> StripTrailing(st.result, At(digits, 0)),
             used |-> st.used \cup {<<"digits", 0>>}]

---------------------------------------------------------------------------
(* u64 arithmetic on five base-10000 digits, least significant first *)

\* n % 10000
U64Rem(n) == n[1]

\* n / 10000
U64Div(n) == Tail(n) \o <<0>>

\* n > 0
U64Positive(n) == \E k \in 1..Len(n) : n[k] > 0

\* a > b
U64Gt(a, b) ==
  \E k \in 1..Len(a) : a[k] > b[k] /\ \A j \in (k + 1)..Len(a) : a[j] = b[j]

---------------------------------------------------------------------------
(* f64 inputs: [cls, neg, int, frac], the class, the sign, the integer     *)
(* magnitude and the fractional digits of the shortest decimal text        *)
(* Every integer magnitude below 10^20 is admitted, a superset of the     *)
(* magnitudes an f64 holds exactly; fractional_part is compared through   *)
(* the decimal digits of the text rather than the binary value.           *)

\* the four decimal digits of one chunk
ChunkDigits(c) == <<c \div 1000, (c \div 100) % 10, (c \div 10) % 10, c % 10>>

RECURSIVE StripLeadingZeros(_)
StripLeadingZeros(ds) ==
  IF ds # <<>> /\ Head(ds) = 0 THEN StripLeadingZeros(Tail(ds)) ELSE ds

\* the decimal digits of the integer magnitude, most significant first
IntDigits(int) ==
  LET all == ChunkDigits(int[5]) \o ChunkDigits(int[4]) \o ChunkDigits(int[3])
               \o ChunkDigits(int[2]) \o ChunkDigits(int[1])
      ds == StripLeadingZeros(all)
  IN IF ds = <<>> THEN <<0>> ELSE ds

DigitChars == <<"0", "1", "2", "3", "4", "5", "6", "7", "8", "9">>

\* char::to_digit(10): the digit of an ASCII digit char, -1 for None
ToDigit(c) ==
  IF \E d \in 0..9 : DigitChars[d + 1] = c
    THEN CHOOSE d \in 0..9 : DigitChars[d + 1] = c
    ELSE -1

\* f64::to_string (Display: shortest round-trip decimal, never an exponent)
NumToString(x) ==
  CASE x.cls = "nan" -> <<"N", "a", "N">>
    [] x.cls = "inf" -> (IF x.neg THEN <<"-">> ELSE <<>>) \o <<"i", "n", "f">>
    [] OTHER ->
         LET ip == IntDigits(x.int)
         IN (IF x.neg THEN <<"-">> ELSE <<>>)
              \o [k \in 1..Len(ip) |-> DigitChars[ip[k] + 1]]
              \o (IF x.frac = <<>> THEN <<>>
                  ELSE <<".">> \o [k \in 1..Len(x.frac) |-> DigitChars[x.frac[k] + 1]])

\* the f64 value of the literal 9_999_999_999_999_999_999.0 is 10^19
CEILING == <<0, 0, 0, 0, 1000>>

\* num.abs() > 9_999_999_999_999_999_999.0
AboveCeiling(x) ==
  \/ U64Gt(x.int, CEILING)
  \/ x.int = CEILING /\ x.frac # <<>>

\* `!num.is_finite() || num.abs() > 9_999_999_999_999_999_999.0`
FallsBack(x) == x.cls # "finite" \/ AboveCeiling(x)

\* num_abs.trunc() as u64 (the cast never saturates below the ceiling)
IntegerPart(x) == x.int

\* fractional_part == 0.0
FractIsZero(x) == x.frac = <<>>

\* fractional_part > 1e-9, read off the decimal digits of the fraction
FractAboveEpsilon(x) ==
  /\ \E k \in 1..Len(x.frac) : k <= 9 /\ x.frac[k] # 0
  /\ x.frac # <<0, 0, 0, 0, 0, 0, 0, 0, 1>>

---------------------------------------------------------------------------
(* convert_integer *)

\* locals at entry to the chunk loop
IntegerInit(n) ==
  [n |-> n, result |-> <<>>, unit_idx |-> 0, needs_zero |-> FALSE, used |-> {}]

\* NeedsZeroAfterPart with `part <= 1000`
NeedsZeroAfterPartInclusive(part, n) == part <= 1000 /\ U64Positive(U64Div(n))

\* `needs_zero = part < 1000 && n / 10000 > 0`
NeedsZeroAfterPart(part, n) == part < 1000 /\ U64Positive(U64Div(n))

\* NeedsZeroAfterZeroChunk without the starts_with guard
NeedsZeroAfterZeroChunkUnguarded(res, digits) == res # <<>>

\* NeedsZeroAfterZeroChunk without the is_empty guard
NeedsZeroAfterZeroChunkOnEmpty(res, digits) == ~StartsWith(res, At(digits, 0))

\* `needs_zero = !result.is_empty() && !result.starts_with(digits[0])`
NeedsZeroAfterZeroChunk(res, digits) ==
  res # <<>> /\ ~StartsWith(res, At(digits, 0))

\* LargeUnitSuffix reading LARGE_UNITS one entry too far
LargeUnitSuffixOneBased(unit_idx) ==
  IF unit_idx > 0
    THEN [str |-> At(LARGE_UNITS, unit_idx + 1),
          used |-> {<<"LARGE_UNITS", unit_idx + 1>>}]
    ELSE [str |-> <<>>, used |-> {}]

\* `part_str.push_str(LARGE_UNITS[unit_idx])` under `if unit_idx > 0`
LargeUnitSuffix(unit_idx) ==
  IF unit_idx > 0
    THEN [str |-> At(LARGE_UNITS, unit_idx), used |-> {<<"LARGE_UNITS", unit_idx>>}]
    ELSE [str |-> <<>>, used |-> {}]

\* one iteration of `while n > 0`
ConvertIntegerStep(st, digits, units, flag) ==
  LET part == U64Rem(st.n)
      r0 == IF st.needs_zero THEN At(digits, 0) \o st.result ELSE st.result
      u0 == IF st.needs_zero THEN st.used \cup {<<"digits", 0>>} ELSE st.used
  IN IF part > 0
       THEN LET f == ConvertFourDigits(part, digits, units, flag)
                lu == LargeUnitSuffix(st.unit_idx)
            IN [n |-> U64Div(st.n),
                result |-> f.str \o lu.str \o r0,
                unit_idx |-> st.unit_idx + 1,
                needs_zero |-> NeedsZeroAfterPart(part, st.n),
                used |-> u0 \cup f.used \cup lu.used]
       ELSE [n |-> U64Div(st.n),
             result |-> r0,
             unit_idx |-> st.unit_idx + 1,
             needs_zero |-> NeedsZeroAfterZeroChunk(r0, digits),
             used |-> IF r0 # <<>> THEN u0 \cup {<<"digits", 0>>} ELSE u0]

RECURSIVE ConvertIntegerLoop(_, _, _, _)
ConvertIntegerLoop(st, digits, units, flag) ==
  IF U64Positive(st.n) /\ ~Panics(st.used)
    THEN ConvertIntegerLoop(ConvertIntegerStep(st, digits, units, flag),
                            digits, units, flag)
    ELSE st

\* convert_integer as a function: [str, used]
ConvertInteger(n, digits, units, flag) ==
  IF ~U64Positive(n)
    THEN [str |-> At(digits, 0), used |-> {<<"digits", 0>>}]
    ELSE LET st == ConvertIntegerLoop(IntegerInit(n), digits, units, flag)
         IN [str |-> st.result, used |-> st.used]

---------------------------------------------------------------------------
(* to_chinese_numeral *)

\* the sign prefix: `if num.is_sign_negative() { result.push_str(neg) }`
SignPrefix(x) == IF x.neg THEN <<"fu">> ELSE <<>>

\* the branch that pushes digits[0] without calling convert_integer
PushesZeroDigit(x) ==
  ~U64Positive(IntegerPart(x)) /\ (FractIsZero(x) \/ FractAboveEpsilon(x))

\* the chars of num_str after the first '.', empty when there is none
AfterPoint(text) ==
  IF \E k \in 1..Len(text) : text[k] = "."
    THEN LET dot_pos == CHOOSE k \in 1..Len(text) :
                          text[k] = "." /\ \A j \in 1..(k - 1) : text[j] # "."
         IN SubSeq(text, dot_pos + 1, Len(text))
    ELSE <<>>

\* the glyphs pushed for the chars of the fractional text, in order
RECURSIVE FractionGlyphs(_, _)
FractionGlyphs(chars, digits) ==
  IF chars = <<>> THEN <<>>
  ELSE LET d == ToDigit(Head(chars))
       IN (IF d >= 0 THEN At(digits, d) ELSE <<>>)
            \o FractionGlyphs(Tail(chars), digits)

\* the digit-table indices those chars read
FractionUsed(chars) ==
  {<<"digits", ToDigit(chars[k])>> : k \in {j \in 1..Len(chars) : ToDigit(chars[j]) >= 0}}

\* the tail pushed under `if fractional_part > 1e-9`
FractionTail(x, digits) ==
  <<".">> \o FractionGlyphs(AfterPoint(NumToString(x)), digits)

\* to_chinese_numeral as a function
ToChineseNumeral(x, formal, flag) ==
  IF FallsBack(x) THEN NumToString(x)
  ELSE LET p == Profile(formal)
           ip == IF PushesZeroDigit(x) THEN At(p.digits, 0)
                 ELSE ConvertInteger(IntegerPart(x), p.digits, p.units, flag).str
       IN SignPrefix(x) \o ip
            \o (IF FractAboveEpsilon(x) THEN FractionTail(x, p.digits) ELSE <<>>)

---------------------------------------------------------------------------
(* to_chinese_digits *)

\* the (digits, neg, point) triple selected by is_formal
DigitsProfile(formal) ==
  IF formal THEN [digits |-> TRAD_FORMAL_DIGITS, neg |-> <<"fu">>, point |-> <<".">>]
            ELSE [digits |-> TRAD_SIMP_DIGITS, neg |-> <<"fu">>, point |-> <<".">>]

\* the `match c` of the char loop
RECURSIVE MapDigitChars(_, _)
MapDigitChars(chars, p) ==
  IF chars = <<>> THEN <<>>
  ELSE LET c == Head(chars)
           g == CASE ToDigit(c) >= 0 -> At(p.digits, ToDigit(c))
                  [] c = "-" -> p.neg
                  [] c = "." -> p.point
                  [] OTHER -> <<>>
       IN g \o MapDigitChars(Tail(chars), p)

\* to_chinese_digits as a function
ToChineseDigits(x, formal) == MapDigitChars(NumToString(x), DigitsProfile(formal))

---------------------------------------------------------------------------
(* Values that do not take part in a run *)

NoNum == [cls |-> "finite", neg |-> FALSE, int |-> <<0, 0, 0, 0, 0>>, frac |-> <<>>]
NoInteger == [n |-> <<0, 0, 0, 0, 0>>, result |-> <<>>, unit_idx |-> 0, needs_zero |-> FALSE]
NoFour == [n0 |-> 0, n |-> 0, i |-> 0, result |-> <<>>, was_zero |-> TRUE]

---------------------------------------------------------------------------
(* Specification of convert_four_digits alone, one step per loop iteration *)

InitFour ==
  /\ fn = "convert_four_digits"
  /\ num = NoNum
  /\ is_formal \in BOOLEAN
  /\ use_leading_one_for_ten \in BOOLEAN
  /\ pc = "cf_call"
  /\ result = <<>>
  /\ ci = NoInteger
  /\ \E n \in 0..(ChunkBase - 1) : cf = [NoFour EXCEPT !.n0 = n, !.n = n]
  /\ used = {}

\* `if n == 0 { return "".to_string(); }`
FourDigitsReturnEmpty ==
  /\ pc = "cf_call"
  /\ cf.n = 0
  /\ result' = <<>>
  /\ pc' = "done"
  /\ UNCHANGED <<fn, num, is_formal, use_leading_one_for_ten, ci, cf, used>>

\* `let mut result = String::new(); let mut was_zero = true;`
FourDigitsEnter ==
  /\ pc = "cf_call"
  /\ cf.n # 0
  /\ cf' = [cf EXCEPT !.i = 3, !.result = <<>>, !.was_zero = TRUE]
  /\ pc' = "cf_loop"
  /\ UNCHANGED <<fn, num, is_formal, use_leading_one_for_ten, result, ci, used>>

\* one iteration of the position loop
FourDigitsIterate ==
  /\ pc = "cf_loop"
  /\ LET p == Profile(is_formal)
         st == FourDigitsStep([n |-> cf.n, result |-> cf.result,
                               was_zero |-> cf.was_zero, used |-> used],
                              cf.i, p.digits, p.units, use_leading_one_for_ten)
     IN /\ used' = st.used
        /\ cf' = [cf EXCEPT !.n = st.n, !.result = st.result,
                            !.was_zero = st.was_zero,
                            !.i = IF cf.i > 0 THEN cf.i - 1 ELSE cf.i]
        /\ pc' = IF Panics(st.used) THEN "panic"
                 ELSE IF cf.i > 0 THEN "cf_loop" ELSE "cf_strip"
  /\ UNCHANGED <<fn, num, is_formal, use_leading_one_for_ten, result, ci>>

\* the trailing-zero loop and the return
FourDigitsStrip ==
  /\ pc = "cf_strip"
  /\ result' = StripTrailing(cf.result, At(Profile(is_formal).digits, 0))
  /\ used' = used \cup {<<"digits", 0>>}
  /\ pc' = "done"
  /\ UNCHANGED <<fn, num, is_formal, use_leading_one_for_ten, ci, cf>>

NextFour ==
  \/ FourDigitsReturnEmpty
  \/ FourDigitsEnter
  \/ FourDigitsIterate
  \/ FourDigitsStrip

SpecFour == InitFour /\ [][NextFour]_vars

---------------------------------------------------------------------------
(* Specification of the public functions; convert_integer runs one step    *)
(* per chunk                                                               *)

\* largest value of the run of small low chunks
MaxLow == 20

\* values of the least significant chunk
LowChunks == 0..MaxLow \cup {102, 110, 999, 1000, 1005, 9999}

\* values of the three middle chunks
MidChunks == {0, 1, 1000}

\* values of the most significant chunk
TopChunks == {0, 10, 999}

\* fractional digit texts; the last one is below the 1e-9 epsilon
FracTexts == {<<>>, <<3>>, <<2, 5>>, <<0, 0, 0, 0, 0, 0, 0, 0, 0, 1>>}

\* whole numbers over all five chunks
WholeInputs ==
  {[cls |-> "finite", neg |-> FALSE, int |-> <<a, b, c, d, e>>, frac |-> <<>>] :
     a \in LowChunks, b \in MidChunks, c \in MidChunks, d \in MidChunks, e \in TopChunks}

\* the ceiling 10^19 itself and two values above it
CeilingInputs ==
  {[cls |-> "finite", neg |-> s, int |-> n, frac |-> <<>>] :
     s \in BOOLEAN, n \in {CEILING, <<1, 0, 0, 0, 1000>>, <<0, 0, 0, 0, 1844>>}}

\* signed numbers below 10000 with fractional digits
SmallInputs ==
  {[cls |-> "finite", neg |-> s, int |-> <<a, 0, 0, 0, 0>>, frac |-> f] :
     s \in BOOLEAN, a \in LowChunks, f \in FracTexts}

\* NaN and the two infinities
NonFiniteInputs ==
  {[cls |-> "nan", neg |-> FALSE, int |-> <<0, 0, 0, 0, 0>>, frac |-> <<>>]}
    \cup {[cls |-> "inf", neg |-> s, int |-> <<0, 0, 0, 0, 0>>, frac |-> <<>>] :
            s \in BOOLEAN}

Inputs == WholeInputs \cup CeilingInputs \cup SmallInputs \cup NonFiniteInputs

Init ==
  /\ fn \in {"to_chinese_numeral", "to_chinese_digits"}
  /\ num \in Inputs
  /\ is_formal \in BOOLEAN
  /\ use_leading_one_for_ten \in
       (IF fn = "to_chinese_numeral" THEN BOOLEAN ELSE {FALSE})
  /\ pc = "call"
  /\ result = <<>>
  /\ ci = NoInteger
  /\ cf = NoFour
  /\ used = {}

\* the early return of to_chinese_numeral: `return num.to_string();`
NumeralFallback ==
  /\ pc = "call"
  /\ fn = "to_chinese_numeral"
  /\ FallsBack(num)
  /\ result' = NumToString(num)
  /\ pc' = "done"
  /\ UNCHANGED <<fn, num, is_formal, use_leading_one_for_ten, ci, cf, used>>

\* profile selection, the sign prefix and the split of num_abs
NumeralSign ==
  /\ pc = "call"
  /\ fn = "to_chinese_numeral"
  /\ ~FallsBack(num)
  /\ result' = SignPrefix(num)
  /\ pc' = "int_part"
  /\ UNCHANGED <<fn, num, is_formal, use_leading_one_for_ten, ci, cf, used>>

\* the two branches that push digits[0] for a zero integer part
NumeralZero ==
  /\ pc = "int_part"
  /\ PushesZeroDigit(num)
  /\ result' = result \o At(Profile(is_formal).digits, 0)
  /\ used' = used \cup {<<"digits", 0>>}
  /\ pc' = "fraction"
  /\ UNCHANGED <<fn, num, is_formal, use_leading_one_for_ten, ci, cf>>

\* convert_integer called with n == 0: `return digits[0].to_string();`
ConvertIntegerReturnZero ==
  /\ pc = "int_part"
  /\ ~PushesZeroDigit(num)
  /\ ~U64Positive(IntegerPart(num))
  /\ result' = result \o At(Profile(is_formal).digits, 0)
  /\ used' = used \cup {<<"digits", 0>>}
  /\ pc' = "fraction"
  /\ UNCHANGED <<fn, num, is_formal, use_leading_one_for_ten, ci, cf>>

\* convert_integer called with n > 0: the locals before the loop
ConvertIntegerEnter ==
  /\ pc = "int_part"
  /\ ~PushesZeroDigit(num)
  /\ U64Positive(IntegerPart(num))
  /\ ci' = [n |-> IntegerPart(num), result |-> <<>>, unit_idx |-> 0,
            needs_zero |-> FALSE]
  /\ pc' = "ci_loop"
  /\ UNCHANGED <<fn, num, is_formal, use_leading_one_for_ten, result, cf, used>>

\* one iteration of `while n > 0`
ConvertIntegerIterate ==
  /\ pc = "ci_loop"
  /\ U64Positive(ci.n)
  /\ LET p == Profile(is_formal)
         st == ConvertIntegerStep([n |-> ci.n, result |-> ci.result,
                                   unit_idx |-> ci.unit_idx,
                                   needs_zero |-> ci.needs_zero, used |-> used],
                                  p.digits, p.units, use_leading_one_for_ten)
     IN /\ ci' = [n |-> st.n, result |-> st.result, unit_idx |-> st.unit_idx,
                  needs_zero |-> st.needs_zero]
        /\ used' = st.used
        /\ pc' = IF Panics(st.used) THEN "panic" ELSE "ci_loop"
  /\ UNCHANGED <<fn, num, is_formal, use_leading_one_for_ten, result, cf>>

\* the loop exit: convert_integer returns and the caller pushes its result
ConvertIntegerReturn ==
  /\ pc = "ci_loop"
  /\ ~U64Positive(ci.n)
  /\ result' = result \o ci.result
  /\ pc' = "fraction"
  /\ UNCHANGED <<fn, num, is_formal, use_leading_one_for_ten, ci, cf, used>>

\* `if fractional_part > 1e-9 { ... }` taken, then the return
NumeralFraction ==
  /\ pc = "fraction"
  /\ FractAboveEpsilon(num)
  /\ LET u == used \cup FractionUsed(AfterPoint(NumToString(num)))
     IN /\ result' = result \o FractionTail(num, Profile(is_formal).digits)
        /\ used' = u
        /\ pc' = IF Panics(u) THEN "panic" ELSE "done"
  /\ UNCHANGED <<fn, num, is_formal, use_leading_one_for_ten, ci, cf>>

\* the return without fractional digits
NumeralReturn ==
  /\ pc = "fraction"
  /\ ~FractAboveEpsilon(num)
  /\ pc' = "done"
  /\ UNCHANGED <<fn, num, is_formal, use_leading_one_for_ten, result, ci, cf, used>>

\* to_chinese_digits, the whole char loop
ChineseDigits ==
  /\ pc = "call"
  /\ fn = "to_chinese_digits"
  /\ result' = ToChineseDigits(num, is_formal)
  /\ used' = used \cup FractionUsed(NumToString(num))
  /\ pc' = "done"
  /\ UNCHANGED <<fn, num, is_formal, use_leading_one_for_ten, ci, cf>>

Next ==
  \/ NumeralFallback
  \/ NumeralSign
  \/ NumeralZero
  \/ ConvertIntegerReturnZero
  \/ ConvertIntegerEnter
  \/ ConvertIntegerIterate
  \/ ConvertIntegerReturn
  \/ NumeralFraction
  \/ NumeralReturn
  \/ ChineseDigits

Spec == Init /\ [][Next]_vars

---------------------------------------------------------------------------
(* Agreement of the stepped run with the functions (sanity) *)

StepsAgree ==
  pc = "done" =>
    /\ fn = "to_chinese_numeral" =>
         result = ToChineseNumeral(num, is_formal, use_leading_one_for_ten)
    /\ fn = "convert_four_digits" =>
         result = ConvertFourDigits(cf.n0, Profile(is_formal).digits,
                                    Profile(is_formal).units,
                                    use_leading_one_for_ten).str

---------------------------------------------------------------------------
(* Vocabulary of the properties *)

\* the zero glyph of the profile in use
ZeroGlyph == At(Profile(is_formal).digits, 0)[1]

\* how often glyph g occurs in s
CountOf(s, g) == Cardinality({k \in 1..Len(s) : s[k] = g})

\* no zero glyph in front, none at the end, no two in a row
WellBridged(s, z) ==
  /\ s # <<>> => s[1] # z /\ s[Len(s)] # z
  /\ \A k \in 1..(Len(s) - 1) : ~(s[k] = z /\ s[k + 1] = z)

\* a finite whole non-negative input with the given chunks
Whole(int) == [cls |-> "finite", neg |-> FALSE, int |-> int, frac |-> <<>>]

\* convert_four_digits has returned
FourDone == fn = "convert_four_digits" /\ pc = "done"

\* to_chinese_numeral has returned
NumeralDone == fn = "to_chinese_numeral" /\ pc = "done"

\* the chunk loop of convert_integer has ended; ci.result is its return value
IntegerReturns == pc = "ci_loop" /\ ~U64Positive(ci.n)

---------------------------------------------------------------------------
(* C1 *)

\* C1: for every n in 0..9999, both profiles and both flag values, the
\* output of convert_four_digits neither starts nor ends with the zero
\* glyph and has no two consecutive zero glyphs; for n = 0 it is empty.
C1_FourDigitsWellBridged ==
  FourDone =>
    /\ WellBridged(result, ZeroGlyph)
    /\ cf.n0 = 0 => result = <<>>

\* 1005 has returned with its single inner zero glyph
C1_Witness ==
  /\ FourDone
  /\ cf.n0 = 1005
  /\ ~is_formal
  /\ result = <<"s1", "s_qian", "s0", "s5">>

---------------------------------------------------------------------------
(* C2 *)

\* C2: lowercase to_chinese_numeral of a whole n in 10..19 is the ten unit
\* and the ones digit if non-zero, with the 'one' glyph in front exactly
\* when use_leading_one_for_ten is set; 20 is "two ten" under either flag.
C2_TenContraction ==
  (NumeralDone /\ ~is_formal) =>
    /\ \A n \in 10..19 :
         num = Whole(<<n, 0, 0, 0, 0>>) =>
           result = (IF use_leading_one_for_ten THEN <<"s1">> ELSE <<>>)
                      \o <<"s_shi">>
                      \o (IF n % 10 # 0 THEN TRAD_SIMP_DIGITS[(n % 10) + 1] ELSE <<>>)
    /\ num = Whole(<<20, 0, 0, 0, 0>>) => result = <<"s2", "s_shi">>

\* 11 has been converted without the leading one
C2_Witness ==
  /\ NumeralDone
  /\ ~is_formal
  /\ ~use_leading_one_for_ten
  /\ num = Whole(<<11, 0, 0, 0, 0>>)
  /\ result = <<"s_shi", "s1">>

---------------------------------------------------------------------------
(* C3 *)

\* C3: for every n in 1..10^19, both profiles and both flag values, the
\* output of convert_integer is non-empty, neither starts nor ends with the
\* zero glyph and has no two consecutive zero glyphs.
C3_IntegerWellBridged ==
  IntegerReturns => ci.result # <<>> /\ WellBridged(ci.result, ZeroGlyph)

\* 1 0000 0000 0001: two all-zero chunks between two chunks below 1000
C3_Witness ==
  /\ IntegerReturns
  /\ ~is_formal
  /\ num = Whole(<<1, 0, 0, 1, 0>>)
  /\ ci.result = <<"s1", "zhao", "s0", "s1">>

---------------------------------------------------------------------------
(* C4 *)

\* C4: to_chinese_numeral(10010, false, false) is "one wan zero one ten":
\* the low chunk 10 keeps its 'one' glyph although the flag is false.
C4_TenThousandTen ==
  (NumeralDone /\ ~is_formal /\ ~use_leading_one_for_ten
     /\ num = Whole(<<10, 1, 0, 0, 0>>)) =>
    result = <<"s1", "wan", "s0", "s1", "s_shi">>

---------------------------------------------------------------------------
(* C5 *)

\* C5 as stated: the output of to_chinese_numeral(100000000, false, false)
\* contains exactly one zero glyph.
C5_OneZeroGlyph ==
  (NumeralDone /\ ~is_formal /\ ~use_leading_one_for_ten
     /\ num = Whole(<<0, 0, 1, 0, 0>>)) =>
    CountOf(result, "s0") = 1

\* C5 amended: the output of to_chinese_numeral(100000000, false, false) is
\* "one yi" with no zero glyph, there being no non-zero chunk below the yi
\* chunk; the all-zero wan chunk is bridged by exactly one zero glyph when
\* a non-zero chunk follows it, as in 100000001 -> "one yi zero one".
C5_ZeroChunkBridge ==
  (NumeralDone /\ ~is_formal /\ ~use_leading_one_for_ten) =>
    /\ num = Whole(<<0, 0, 1, 0, 0>>) =>
         result = <<"s1", "yi">> /\ CountOf(result, "s0") = 0
    /\ num = Whole(<<1, 0, 1, 0, 0>>) =>
         result = <<"s1", "yi", "s0", "s1">> /\ CountOf(result, "s0") = 1

\* 100000000 has been converted
C5_Witness ==
  /\ NumeralDone
  /\ ~is_formal
  /\ ~use_leading_one_for_ten
  /\ num = Whole(<<0, 0, 1, 0, 0>>)
  /\ result = <<"s1", "yi">>

---------------------------------------------------------------------------
(* C6 *)

\* C6: to_chinese_digits(-102.3, false) is the negative marker, one
\* lowercase digit glyph per digit, and the full-width point U+FF0E for the
\* decimal point.
C6_DigitsFullWidthPoint ==
  (fn = "to_chinese_digits" /\ pc = "done" /\ ~is_formal
     /\ num = [cls |-> "finite", neg |-> TRUE, int |-> <<102, 0, 0, 0, 0>>,
               frac |-> <<3>>]) =>
    result = <<"fu", "s1", "s0", "s2", "fw_point", "s3">>

---------------------------------------------------------------------------
(* C7 *)

\* position of the ten unit glyph in the returned fragment
TenUnitAt(k) == <<result[k]>> = At(Profile(is_formal).units, 1)

\* C7: with use_leading_one_for_ten false, the digit glyph in front of the
\* ten unit is omitted if and only if the full chunk value lies in 10..19;
\* a chunk with tens digit 1 and a non-zero hundreds or thousands digit is
\* rendered exactly as when the flag is true.
C7_ContractionOnlyForTeens ==
  (FourDone /\ ~use_leading_one_for_ten /\ (cf.n0 \div 10) % 10 # 0) =>
    LET tens == (cf.n0 \div 10) % 10
        p == Profile(is_formal)
    IN /\ \A k \in 1..Len(result) :
            TenUnitAt(k) =>
              ((k = 1 \/ <<result[k - 1]>> # At(p.digits, tens))
                 <=> cf.n0 \in 10..19)
       /\ (tens = 1 /\ cf.n0 >= 100) =>
            result = ConvertFourDigits(cf.n0, p.digits, p.units, TRUE).str

---------------------------------------------------------------------------
(* C8 *)

\* the nearest non-zero chunk above chunk k, 0 when there is none
HigherNonZero(int, k) ==
  IF \E h \in (k + 1)..Len(int) : int[h] > 0
    THEN CHOOSE h \in (k + 1)..Len(int) :
           int[h] > 0 /\ \A j \in (k + 1)..(h - 1) : int[j] = 0
    ELSE 0

\* what chunk k contributes: a bridging zero glyph when a higher non-zero
\* chunk exists and either an all-zero chunk lies in between or the chunk
\* is below 1000, then its fragment, then its large unit
ChunkPiece(int, k, digits, units, flag) ==
  IF int[k] = 0 THEN <<>>
  ELSE LET h == HigherNonZero(int, k)
           bridge == IF h # 0 /\ (h > k + 1 \/ int[k] < 1000)
                       THEN At(digits, 0) ELSE <<>>
       IN bridge \o ConvertFourDigits(int[k], digits, units, flag).str
            \o LARGE_UNITS[k]

\* the pieces of the five chunks, most significant first
BridgedChunks(int, digits, units, flag) ==
  ChunkPiece(int, 5, digits, units, flag) \o ChunkPiece(int, 4, digits, units, flag)
    \o ChunkPiece(int, 3, digits, units, flag) \o ChunkPiece(int, 2, digits, units, flag)
    \o ChunkPiece(int, 1, digits, units, flag)

\* C8: the output of convert_integer is, chunk by chunk from the most
\* significant: nothing for an all-zero chunk; for a non-zero chunk its
\* fragment followed by its large unit, preceded by exactly one zero glyph
\* when a non-zero chunk lies above it and either an all-zero chunk
\* separates the two or the chunk is below 1000, and by none otherwise.
C8_ChunkBridging ==
  IntegerReturns =>
    ci.result = BridgedChunks(IntegerPart(num), Profile(is_formal).digits,
                              Profile(is_formal).units, use_leading_one_for_ten)

\* 1 0000 1000: a chunk of 1000 below an all-zero chunk gets its zero glyph
C8_Witness ==
  /\ IntegerReturns
  /\ ~is_formal
  /\ num = Whole(<<1000, 0, 1, 0, 0>>)
  /\ ci.result = <<"s1", "yi", "s0", "s1", "s_qian">>

---------------------------------------------------------------------------
(* C9 *)

\* C9: for every input that passes the ceiling check no table access
\* panics: digit indices stay in 0..9, place-unit indices in 0..3 and
\* large-unit indices in 0..4.
C9_IndicesInRange ==
  fn = "to_chinese_numeral" =>
    /\ pc # "panic"
    /\ \A a \in used :
         /\ a[1] = "digits" => a[2] \in 0..9
         /\ a[1] = "units" => a[2] \in 0..3
         /\ a[1] = "LARGE_UNITS" => a[2] \in 0..4

\* 10^19 has been converted: the top large unit and the top place unit
\* have both been read
C9_Witness ==
  /\ NumeralDone
  /\ num = Whole(<<0, 0, 0, 0, 1000>>)
  /\ <<"LARGE_UNITS", 4>> \in used
  /\ <<"units", 3>> \in used

---------------------------------------------------------------------------
(* C10 *)

\* the formal glyph of the same table and index as a lowercase glyph;
\* every other glyph is left alone
FormalGlyph(g) ==
  IF \E d \in 1..10 : TRAD_SIMP_DIGITS[d] = <<g>>
    THEN TRAD_FORMAL_DIGITS[CHOOSE d \in 1..10 : TRAD_SIMP_DIGITS[d] = <<g>>][1]
  ELSE IF \E u \in 2..4 : TRAD_SIMP_UNITS[u] = <<g>>
    THEN TRAD_FORMAL_UNITS[CHOOSE u \in 2..4 : TRAD_SIMP_UNITS[u] = <<g>>][1]
  ELSE g

\* C10: the formal output of to_chinese_numeral is the lowercase output of
\* the same input and flag with every lowercase digit and place-unit glyph
\* replaced, position by position, by the formal glyph of the same index.
C10_FormalMirrorsLowercase ==
  (NumeralDone /\ is_formal) =>
    LET low == ToChineseNumeral(num, FALSE, use_leading_one_for_ten)
    IN result = [k \in 1..Len(low) |-> FormalGlyph(low[k])]

\* -5.25 in the formal profile: sign and point shared, digits formal
C10_Witness ==
  /\ NumeralDone
  /\ is_formal
  /\ num = [cls |-> "finite", neg |-> TRUE, int |-> <<5, 0, 0, 0, 0>>,
            frac |-> <<2, 5>>]
  /\ result = <<"fu", "f5", ".", "f2", "f5">>

====
